---- MODULE Spec2Model ----
(***************************************************************************)
(* Model of the energyBaleares pipeline: EnergyDataScraper (scraper.py)    *)
(* and EnergyDataApp.fetch_data_for_period (streamlit_app.py).             *)
(*                                                                         *)
(* Text is a sequence of one-character strings.  A source document is the  *)
(* sequence of its <tr class="datos"> rows, a row the sequence of the      *)
(* texts of its th/td cells.  A number is [nan, mant, exp], the decimal    *)
(* mant / 10^exp with trailing zeros of the fraction dropped; NaN is the   *)
(* missing value pandas writes for a failed coercion.                      *)
(***************************************************************************)
EXTENDS Integers, Sequences, FiniteSets, TLC

VARIABLES
    dataframe,      \* EnergyDataApp.dataframe: sequence of records
    pc,             \* position of fetch_data_for_period: idle, loop, returned, raised
    start_date,     \* argument of the running / last call
    end_date,       \* argument of the running / last call
    i,              \* loop variable of fetch_data_for_period
    requests,       \* history: the retrievals of the running / last call, in order
    frame0,         \* history: dataframe when the running / last call began
    s_date,         \* EnergyDataScraper.date of the reused scraper
    df_expandido,   \* EnergyDataScraper.df_expandido of the reused scraper
    s_pc,           \* position of the reused scraper: new, scraped, raised
    s_last,         \* history: status and soup of the reused scraper's last scrape
    cell,           \* a raw value-cell text handed to the normalisation
    value           \* the numeric value the normalisation produced for cell

appVars == <<dataframe, pc, start_date, end_date, i, requests, frame0>>
scraperVars == <<s_date, df_expandido, s_pc, s_last>>
normVars == <<cell, value>>
vars == <<dataframe, pc, start_date, end_date, i, requests, frame0,
          s_date, df_expandido, s_pc, s_last, cell, value>>

----------------------------------------------------------------------------
(* Bounds of the model *)

\* the calendar window holds the dates FirstDate .. FirstDate + MaxDay
MaxDay == 2

\* a new fetch_data_for_period call starts only while the accumulated
\* dataframe has at most MaxFrame rows (caps the unbounded accumulation)
MaxFrame == 1

\* raw cell texts of the normalisation are all texts of at most MaxCellLen
\* characters over CellAlphabet, plus the SampleCells
MaxCellLen == 3

----------------------------------------------------------------------------
(* Text and numbers *)

Digits == {"0", "1", "2", "3", "4", "5", "6", "7", "8", "9"}

DigitVal(c) ==
    CASE c = "0" -> 0 [] c = "1" -> 1 [] c = "2" -> 2 [] c = "3" -> 3
      [] c = "4" -> 4 [] c = "5" -> 5 [] c = "6" -> 6 [] c = "7" -> 7
      [] c = "8" -> 8 [] c = "9" -> 9

DigitChar(n) == CHOOSE c \in Digits : DigitVal(c) = n

NaN == [nan |-> TRUE, mant |-> 0, exp |-> 0]

RECURSIVE Reduce(_, _)
\* the decimal m / 10^e without trailing zeros in its fraction
Reduce(m, e) ==
    IF e > 0 /\ m % 10 = 0 THEN Reduce(m \div 10, e - 1)
    ELSE [nan |-> FALSE, mant |-> m, exp |-> e]

Num(m, e) == Reduce(m, e)

RECURSIVE DigitsToNat(_)
DigitsToNat(s) ==
    IF s = <<>> THEN 0
    ELSE 10 * DigitsToNat(SubSeq(s, 1, Len(s) - 1)) + DigitVal(s[Len(s)])

RECURSIVE Decimal(_)
\* str(n) for n >= 0
Decimal(n) ==
    IF n < 10 THEN <<DigitChar(n)>>
    ELSE Decimal(n \div 10) \o <<DigitChar(n % 10)>>

RECURSIVE ZeroPad(_, _)
\* format(n, "0<w>d"): left-padded with zeros to at least w characters
ZeroPad(s, w) == IF Len(s) >= w THEN s ELSE ZeroPad(<<"0">> \o s, w)

RECURSIVE Strip(_)
\* str.strip(): leading and trailing whitespace removed
Strip(s) ==
    IF s = <<>> THEN s
    ELSE IF Head(s) = " " THEN Strip(Tail(s))
    ELSE IF s[Len(s)] = " " THEN Strip(SubSeq(s, 1, Len(s) - 1))
    ELSE s

\* the replacement forgotten
ReplaceCommaMutant(s) == s

\* str.replace(',', '.')
ReplaceComma(s) == [k \in 1..Len(s) |-> IF s[k] = "," THEN "." ELSE s[k]]

\* str.replace(' ', '')
IsNotSpace(c) == c # " "
RemoveSpaces(s) == SelectSeq(s, IsNotSpace)

\* the text parse_data stores for a value cell
CleanCell(text) == RemoveSpaces(ReplaceComma(Strip(text)))

IsDot(c) == c = "."
IsDigit(c) == c \in Digits

\* index of the first "." of s, Len(s) + 1 when there is none
DotIndex(s) ==
    IF \E k \in 1..Len(s) : s[k] = "."
    THEN CHOOSE k \in 1..Len(s) : s[k] = "." /\ \A j \in 1..(k - 1) : s[j] # "."
    ELSE Len(s) + 1

\* the unsigned part of a numeric text
Unsigned(s) == IF s # <<>> /\ Head(s) \in {"-", "+"} THEN Tail(s) ELSE s

\* a text pandas reads as a decimal number: optional sign, digits with at
\* most one ".", at least one digit
IsNumeric(s) ==
    LET u == Unsigned(s)
    IN  /\ \A k \in 1..Len(u) : u[k] \in Digits \cup {"."}
        /\ Len(SelectSeq(u, IsDot)) <= 1
        /\ Len(SelectSeq(u, IsDigit)) >= 1

\* None, the entry a padded cell holds
NoneCell == <<"None">>

\* a failed coercion filled with zero
ToNumericMutant(s) ==
    IF s = NoneCell \/ ~IsNumeric(s) THEN Num(0, 0)
    ELSE LET u == Unsigned(s)
             d == DotIndex(u)
             whole == SubSeq(u, 1, d - 1)
             frac == SubSeq(u, d + 1, Len(u))
             m == DigitsToNat(whole \o frac)
         IN  Num(IF Head(s) = "-" THEN -m ELSE m, Len(frac))

\* pd.to_numeric(errors='coerce') on one element
ToNumeric(s) ==
    IF s = NoneCell \/ ~IsNumeric(s) THEN NaN
    ELSE LET u == Unsigned(s)
             d == DotIndex(u)
             whole == SubSeq(u, 1, d - 1)
             frac == SubSeq(u, d + 1, Len(u))
             m == DigitsToNat(whole \o frac)
         IN  Num(IF Head(s) = "-" THEN -m ELSE m, Len(frac))

----------------------------------------------------------------------------
(* Calendar dates: datetime / timedelta arithmetic *)

IsLeap(y) == y % 4 = 0 /\ (y % 100 # 0 \/ y % 400 = 0)

DaysInMonth(y, m) ==
    IF m = 2 THEN (IF IsLeap(y) THEN 29 ELSE 28)
    ELSE IF m \in {4, 6, 9, 11} THEN 30 ELSE 31

NextDay(d) ==
    IF d.day < DaysInMonth(d.year, d.month)
    THEN [d EXCEPT !.day = d.day + 1]
    ELSE IF d.month < 12
    THEN [year |-> d.year, month |-> d.month + 1, day |-> 1]
    ELSE [year |-> d.year + 1, month |-> 1, day |-> 1]

RECURSIVE AddDays(_, _)
\* d + timedelta(days=n), n >= 0
AddDays(d, n) == IF n = 0 THEN d ELSE AddDays(NextDay(d), n - 1)

RECURSIVE DaysBeforeMonth(_, _)
DaysBeforeMonth(y, m) ==
    IF m = 1 THEN 0 ELSE DaysBeforeMonth(y, m - 1) + DaysInMonth(y, m - 1)

DaysBeforeYear(y) ==
    (y - 1) * 365 + ((y - 1) \div 4) - ((y - 1) \div 100) + ((y - 1) \div 400)

\* date.toordinal()
Ordinal(d) == DaysBeforeYear(d.year) + DaysBeforeMonth(d.year, d.month) + d.day

\* (b - a).days
DeltaDays(a, b) == Ordinal(b) - Ordinal(a)

\* the first date of the calendar window: the day before a leap day, so the
\* window crosses the end of a month
FirstDate == [year |-> 2024, month |-> 2, day |-> 28]

Dates == {AddDays(FirstDate, k) : k \in 0..MaxDay}

----------------------------------------------------------------------------
(* EnergyDataScraper *)

BASE_URL == "https://www.ree.es/es/balance-diario/baleares"

columnas_datos ==
    <<"Fecha", "Tipo", "Dia", "Mes", "%Mes", "Ano", "%Ano", "Ano movil", "%Movil">>

\* the status code fetch_data accepts
StatusOk == 200

\* __init__: datetime(year, month, day)
NewDate(year, month, day) == [year |-> year, month |-> month, day |-> day]

\* build_url: BASE_URL/<year>/<month:02d>/<day:02d>
BuildUrl(date) ==
    <<BASE_URL, "/">> \o Decimal(date.year) \o <<"/">>
        \o ZeroPad(Decimal(date.month), 2) \o <<"/">> \o ZeroPad(Decimal(date.day), 2)

\* date.strftime('%Y-%m-%d')
Strftime(date) ==
    ZeroPad(Decimal(date.year), 4) \o <<"-">>
        \o ZeroPad(Decimal(date.month), 2) \o <<"-">> \o ZeroPad(Decimal(date.day), 2)

\* what fetch_data returns: None, or the parsed document (its data rows)
NoSoup == [none |-> TRUE, rows |-> <<>>]
Soup(page) == [none |-> FALSE, rows |-> page]

\* fetch_data: the document on status 200, None on any other status
FetchData(resp) ==
    IF resp.status = StatusOk THEN Soup(resp.page) ELSE NoSoup

\* parse_data, one row: [date, category] + cleaned value texts
ParseRow(date, cells) ==
    <<Strftime(date), Strip(cells[1])>>
        \o [k \in 1..(Len(cells) - 1) |-> CleanCell(cells[k + 1])]

\* parse_data: cells[0] of a row without cells raises IndexError
ParseData(date, soup) ==
    IF soup.none THEN [error |-> "none", data |-> <<>>]
    ELSE IF \E k \in 1..Len(soup.rows) : soup.rows[k] = <<>>
    THEN [error |-> "IndexError", data |-> <<>>]
    ELSE [error |-> "none",
          data |-> [k \in 1..Len(soup.rows) |-> ParseRow(date, soup.rows[k])]]

\* the widest row of data
MaxWidth(data) ==
    CHOOSE w \in {Len(data[k]) : k \in 1..Len(data)} :
        \A k \in 1..Len(data) : Len(data[k]) <= w

\* pd.DataFrame(data, columns=...) pads a shorter row with None up to the
\* widest row
PadRow(row, w) == [k \in 1..w |-> IF k <= Len(row) THEN row[k] ELSE NoneCell]

\* one row of df_expandido after the to_numeric loop
FrameRow(row) ==
    [Fecha |-> row[1], Tipo |-> row[2],
     vals |-> [k \in 1..(Len(row) - 2) |-> ToNumeric(row[k + 2])]]

\* expand_data: nothing for an empty list; pd.DataFrame raises ValueError
\* unless the widest row has as many entries as there are column names
ExpandData(df, data) ==
    IF data = <<>> THEN [error |-> "none", df |-> df]
    ELSE IF MaxWidth(data) # Len(columnas_datos)
    THEN [error |-> "ValueError", df |-> df]
    ELSE [error |-> "none",
          df |-> [k \in 1..Len(data) |->
                     FrameRow(PadRow(data[k], Len(columnas_datos)))]]

\* scrape: fetch_data, parse_data, expand_data
Scrape(date, df, resp) ==
    LET parsed == ParseData(date, FetchData(resp))
    IN  IF parsed.error # "none" THEN [error |-> parsed.error, df |-> df]
        ELSE ExpandData(df, parsed.data)

----------------------------------------------------------------------------
(* Source documents the retrievals may return *)

RowHid ==
    << <<"H", "i", "d">>, <<"1", "0", ",", "5">>, <<"3", "0", "0">>,
       <<"5", ",", "0">>, <<"3", "6", "0", "0">>, <<"2", ",", "1">>,
       <<"3", "5", "0", "0">>, <<"1", ",", "0">> >>

RowEol ==
    << <<" ", "E", "o", "l", " ">>, <<"2", "0", ",", "0">>, <<"6", "0", "0">>,
       <<"-", "1", ",", "0">>, <<"7", "2", "0", "0">>, <<"0", ",", "5">>,
       <<"7", "0", "0", "0">>, <<"-", "0", ",", "2">> >>

\* eight cells, some of them empty or not numeric after normalisation
RowBad ==
    << <<"S", "o", "l">>, <<"1", " ", "2", "3", "4", ",", "5", "6">>,
       <<"1", ".", "2", "3", "4", ",", "5", "6">>, <<>>, <<"n", "d">>,
       <<" ", "7", " ">>, <<"-">>, <<"3", ",", "5">> >>

\* two cells
RowShort == << <<"G", "a", "s">>, <<"4", ",", "0">> >>

\* a data row without cells
RowNoCells == <<>>

\* nine cells
RowLong == RowHid \o << <<"9">> >>

PageNone == <<>>
PageTwo == <<RowHid, RowEol>>
PageBad == <<RowBad>>
PageMixed == <<RowEol, RowBad>>
PageDup == <<RowHid, RowHid>>
PagePadded == <<RowShort, RowHid>>
PageShort == <<RowShort>>
PageNoCells == <<RowHid, RowNoCells>>
PageLong == <<RowLong>>

Pages ==
    {PageNone, PageTwo, PageBad, PageMixed, PageDup, PagePadded, PageShort,
     PageNoCells, PageLong}

StatusCodes == {StatusOk, 404, 500}

Responses == [status : StatusCodes, page : Pages]

\* the responses the range loop is run against: one failure status, and the
\* documents that are empty, well formed, duplicated, too narrow or cell-less
AppPages == {PageNone, PageTwo, PageBad, PageDup, PageShort, PageNoCells}

AppResponses == [status : {StatusOk, 404}, page : AppPages]

----------------------------------------------------------------------------
(* EnergyDataApp.fetch_data_for_period *)

\* before the first call the argument variables hold a placeholder date
AppInit ==
    /\ dataframe = <<>>
    /\ pc = "idle"
    /\ start_date = FirstDate
    /\ end_date = FirstDate
    /\ i = 0
    /\ requests = <<>>
    /\ frame0 = <<>>

\* range(delta.days + 1)
RangeLen(a, b) == IF DeltaDays(a, b) + 1 > 0 THEN DeltaDays(a, b) + 1 ELSE 0

\* the day counted from 1
DayOfMutant(start, n) == AddDays(start, n + 1)

\* day = start_date + timedelta(days=i)
DayOf(start, n) == AddDays(start, n)

\* the daily data put in front of the accumulated rows
AccumulatePrepend(frame, daily_data) ==
    IF daily_data # <<>> THEN daily_data \o frame ELSE frame

\* the daily data assigned instead of concatenated
AccumulateReplace(frame, daily_data) ==
    IF daily_data # <<>> THEN daily_data ELSE frame

\* pd.concat([self.dataframe, daily_data], ignore_index=True), skipped for
\* an empty daily_data
Accumulate(frame, daily_data) ==
    IF daily_data # <<>> THEN frame \o daily_data ELSE frame

\* a call of fetch_data_for_period(start, end) on the app object begins
FetchDataForPeriod(start, end) ==
    /\ pc \in {"idle", "returned", "raised"}
    /\ Len(dataframe) <= MaxFrame
    /\ start_date' = start
    /\ end_date' = end
    /\ i' = 0
    /\ requests' = <<>>
    /\ frame0' = dataframe
    /\ pc' = "loop"
    /\ UNCHANGED dataframe

\* one iteration of the loop: a fresh scraper for day i scrapes and its
\* non-empty dataframe is appended; an exception of scrape leaves the call
LoopBody(resp) ==
    /\ pc = "loop"
    /\ i < RangeLen(start_date, end_date)
    /\ LET day == DayOf(start_date, i)
           date == NewDate(day.year, day.month, day.day)
           r == Scrape(date, <<>>, resp)
       IN  /\ requests' = Append(requests,
                   [url |-> BuildUrl(date), day |-> day,
                    status |-> resp.status, soup |-> FetchData(resp)])
           /\ IF r.error # "none"
              THEN /\ pc' = "raised"
                   /\ UNCHANGED <<dataframe, i>>
              ELSE /\ dataframe' = Accumulate(dataframe, r.df)
                   /\ i' = i + 1
                   /\ pc' = "loop"
    /\ UNCHANGED <<start_date, end_date, frame0>>

\* the loop is exhausted and the call returns
LoopExit ==
    /\ pc = "loop"
    /\ i >= RangeLen(start_date, end_date)
    /\ pc' = "returned"
    /\ UNCHANGED <<dataframe, start_date, end_date, i, requests, frame0>>

----------------------------------------------------------------------------
(* One EnergyDataScraper object, scraped any number of times *)

NoLast == [status |-> 0, soup |-> NoSoup, error |-> "none"]

ScraperInit ==
    /\ s_date \in Dates
    /\ df_expandido = <<>>
    /\ s_pc = "new"
    /\ s_last = NoLast

ScraperIdle ==
    /\ s_date = FirstDate
    /\ df_expandido = <<>>
    /\ s_pc = "new"
    /\ s_last = NoLast

\* scrape() on the object; an exception leaves the object as it was
ScrapeCall(resp) ==
    /\ LET r == Scrape(s_date, df_expandido, resp)
       IN  /\ df_expandido' = r.df
           /\ s_pc' = IF r.error = "none" THEN "scraped" ELSE "raised"
           /\ s_last' = [status |-> resp.status, soup |-> FetchData(resp),
                         error |-> r.error]
    /\ UNCHANGED s_date

\* get_dataframe()
GetDataframe == df_expandido

----------------------------------------------------------------------------
(* The normalisation of one value cell *)

CellAlphabet == {"1", "5", ",", ".", " "}

RECURSIVE TextsUpTo(_)
TextsUpTo(n) ==
    IF n = 0 THEN {<<>>}
    ELSE LET shorter == TextsUpTo(n - 1)
         IN  shorter \cup {Append(t, c) : t \in shorter, c \in CellAlphabet}

SampleCells ==
    {<<"1", ".", "2", "3", "4", ",", "5", "6">>,
     <<"1", " ", "2", "3", "4", ",", "5", "6">>,
     <<"1", "2", "3", "4", ",", "5", "6">>,
     <<"n", "d">>, <<"-", "0", ",", "2">>}

Cells == TextsUpTo(MaxCellLen) \cup SampleCells

NormInit ==
    /\ cell \in Cells
    /\ value = <<>>

NormIdle ==
    /\ cell = <<>>
    /\ value = <<>>

\* parse_data's cleaning followed by expand_data's to_numeric, on one cell;
\* value is <<v>> once computed
Normalize ==
    /\ value = <<>>
    /\ value' = <<ToNumeric(CleanCell(cell))>>
    /\ UNCHANGED cell

\* the next cell
NextCell ==
    /\ value # <<>>
    /\ cell' \in Cells
    /\ value' = <<>>

----------------------------------------------------------------------------
(* Specifications *)

Init == AppInit /\ ScraperIdle /\ NormIdle

Next ==
    \/ \E start \in Dates, end \in Dates :
           FetchDataForPeriod(start, end) /\ UNCHANGED <<scraperVars, normVars>>
    \/ \E resp \in AppResponses : LoopBody(resp) /\ UNCHANGED <<scraperVars, normVars>>
    \/ LoopExit /\ UNCHANGED <<scraperVars, normVars>>

Spec == Init /\ [][Next]_vars

InitScraper == AppInit /\ ScraperInit /\ NormIdle

NextScraper ==
    \E resp \in Responses : ScrapeCall(resp) /\ UNCHANGED <<appVars, normVars>>

SpecScraper == InitScraper /\ [][NextScraper]_vars

InitNorm == AppInit /\ ScraperIdle /\ NormInit

NextNorm ==
    \/ Normalize /\ UNCHANGED <<appVars, scraperVars>>
    \/ NextCell /\ UNCHANGED <<appVars, scraperVars>>

SpecNorm == InitNorm /\ [][NextNorm]_vars

----------------------------------------------------------------------------
(* Notions the properties are stated with *)

\* the rows the running / last call added to the dataframe
Appended == SubSeq(dataframe, Len(frame0) + 1, Len(dataframe))

\* the running / last call has ended, by return or by exception
CallEnded == pc \in {"returned", "raised"}

\* the calendar date a 'YYYY-MM-DD' text denotes
DateOfText(text) ==
    [year |-> DigitsToNat(SubSeq(text, 1, 4)),
     month |-> DigitsToNat(SubSeq(text, 6, 7)),
     day |-> DigitsToNat(SubSeq(text, 9, 10))]

IsDateText(text) ==
    /\ Len(text) = 10
    /\ text[5] = "-" /\ text[8] = "-"
    /\ \A k \in {1, 2, 3, 4, 6, 7, 9, 10} : text[k] \in Digits

\* the daily dataset a logged retrieval yields: empty for a failed
\* retrieval, for a document without data rows and for a scrape that raised
DailyOf(req) ==
    LET parsed == ParseData(req.day, req.soup)
    IN  IF parsed.error # "none" THEN <<>> ELSE ExpandData(<<>>, parsed.data).df

RECURSIVE ConcatDaily(_)
\* the daily datasets of a log of retrievals, concatenated in log order
ConcatDaily(log) ==
    IF log = <<>> THEN <<>>
    ELSE ConcatDaily(SubSeq(log, 1, Len(log) - 1)) \o DailyOf(log[Len(log)])

\* a data row with fewer cells than the eight the columns need
IsShortRow(row) == Len(row) < Len(columnas_datos) - 1

HasShortRow(soup) == \E k \in 1..Len(soup.rows) : IsShortRow(soup.rows[k])

----------------------------------------------------------------------------
(* Properties *)

\* C1: a call of fetch_data_for_period with start after end is rejected: it
\* never returns normally.
C1_InvalidRangeRejected ==
    Ordinal(start_date) > Ordinal(end_date) => pc # "returned"

\* C3: a data row with fewer than 8 cells never aborts a call on a
\* well-formed range: no call ends by an exception raised on a document
\* holding such a row.
C3_ShortRowNeverAborts ==
    ~(/\ pc = "raised"
      /\ Ordinal(start_date) <= Ordinal(end_date)
      /\ HasShortRow(requests[Len(requests)].soup))

\* C5: a call on a single-day range d..d adds only records dated d, so on an
\* app object without earlier rows every record of the dataset is dated d.
C5_SingleDayDates ==
    (pc # "idle" /\ start_date = end_date) =>
        /\ \A k \in 1..Len(Appended) :
               /\ IsDateText(Appended[k].Fecha)
               /\ DateOfText(Appended[k].Fecha) = start_date
        /\ frame0 = <<>> => dataframe = Appended

C5_Witness ==
    /\ pc = "returned"
    /\ start_date = end_date
    /\ start_date = AddDays(FirstDate, 1)
    /\ frame0 = <<>>
    /\ Len(dataframe) = 2

\* the range of the running / last call is well formed
ValidRange == Ordinal(start_date) <= Ordinal(end_date)

\* a logged retrieval returned a non-success status
Failed(req) == req.status # StatusOk

\* the rows of a frame dated as the text says
RowsDated(frame, text) == SelectSeq(frame, LAMBDA r : r.Fecha = text)

\* the date text of the rows a logged retrieval's day gets
DateText(req) == Strftime(req.day)

\* C2: with any subset of the days of a well-formed range failing, the call
\* runs to completion and its rows are the records of exactly the days that
\* succeeded, none of a failed day.
C2_FailedDaysOmitted ==
    (pc # "idle" /\ ValidRange /\ \E k \in 1..Len(requests) : Failed(requests[k])) =>
        /\ pc # "raised"
        /\ pc = "returned" =>
              /\ Appended = ConcatDaily(SelectSeq(requests, LAMBDA q : ~Failed(q)))
              /\ \A k \in 1..Len(requests) :
                     Failed(requests[k]) =>
                         RowsDated(Appended, DateText(requests[k])) = <<>>

\* What does hold of a failed retrieval: it never raises, and it adds no row.
FailedDayContained ==
    (pc # "idle" /\ requests # <<>>) =>
        /\ (pc = "raised" => ~Failed(requests[Len(requests)]))
        /\ \A k \in 1..Len(requests) :
               Failed(requests[k]) =>
                   RowsDated(Appended, DateText(requests[k])) = <<>>
        /\ pc = "returned" =>
               Appended = ConcatDaily(SelectSeq(requests, LAMBDA q : ~Failed(q)))

\* C4: a call on a well-formed range performs exactly (end - start).days + 1
\* retrievals, one per day of the range in ascending order, each for the
\* locator of its day.
C4_OneRetrievalPerDay ==
    (CallEnded /\ ValidRange) =>
        /\ Len(requests) = DeltaDays(start_date, end_date) + 1
        /\ \A k \in 1..Len(requests) :
               /\ requests[k].day = AddDays(start_date, k - 1)
               /\ requests[k].url = BuildUrl(requests[k].day)

\* What does hold of the retrievals: at every point of a call they are the
\* first days of the range in ascending order, each day once, and a call
\* that returns has retrieved every day of the range.
RetrievalsAscending ==
    pc # "idle" =>
        /\ \A k \in 1..Len(requests) :
               /\ requests[k].day = AddDays(start_date, k - 1)
               /\ requests[k].url = BuildUrl(requests[k].day)
        /\ Len(requests) <= RangeLen(start_date, end_date)
        /\ pc = "returned" => Len(requests) = RangeLen(start_date, end_date)
        /\ pc = "loop" => Len(requests) = i

\* the categories of a document's rows, as the records carry them
Categories(soup) == [k \in 1..Len(soup.rows) |-> Strip(soup.rows[k][1])]

\* a document lists each category once
ListsOnce(soup) ==
    \A j, k \in 1..Len(soup.rows) :
        (j # k /\ soup.rows[j] # <<>> /\ soup.rows[k] # <<>>) =>
            Strip(soup.rows[j][1]) # Strip(soup.rows[k][1])

\* C6: the rows a call adds are the non-empty daily datasets of its days,
\* concatenated in ascending date order: dates never decrease along them,
\* the rows of a day keep the order of the day's source table, and no
\* (date, category) pair occurs twice when each table lists each category
\* once; a call that returns has gone through every day of its range.
C6_ConcatenationInDateOrder ==
    pc # "idle" =>
        /\ Appended = ConcatDaily(requests)
        /\ \A j, k \in 1..Len(Appended) :
               j < k => Ordinal(DateOfText(Appended[j].Fecha))
                            <= Ordinal(DateOfText(Appended[k].Fecha))
        /\ \A q \in 1..Len(requests) :
               LET rows == RowsDated(Appended, DateText(requests[q]))
               IN  rows # <<>> =>
                       [k \in 1..Len(rows) |-> rows[k].Tipo]
                           = Categories(requests[q].soup)
        /\ (\A q \in 1..Len(requests) : ListsOnce(requests[q].soup)) =>
               \A j, k \in 1..Len(Appended) :
                   j # k => <<Appended[j].Fecha, Appended[j].Tipo>>
                                # <<Appended[k].Fecha, Appended[k].Tipo>>
        /\ pc = "returned" =>
               [q \in 1..Len(requests) |-> requests[q].day]
                   = [q \in 1..RangeLen(start_date, end_date) |->
                          AddDays(start_date, q - 1)]

C6_Witness ==
    /\ pc = "returned"
    /\ DeltaDays(start_date, end_date) = 2
    /\ Len(Appended) = 3
    /\ requests[1].soup = Soup(PageTwo)
    /\ requests[2].soup = Soup(PageNone)
    /\ requests[3].soup = Soup(PageBad)

\* C10: fetch_data_for_period only appends: the rows accumulated before a
\* call stay, unchanged and in order, as a prefix of the dataframe, what
\* follows them is what the call added, and a call whose days are all empty
\* or failed leaves the dataframe as it was.
C10_AppendOnly ==
    /\ Len(frame0) <= Len(dataframe)
    /\ SubSeq(dataframe, 1, Len(frame0)) = frame0
    /\ pc # "idle" => dataframe = frame0 \o ConcatDaily(requests)
    /\ (pc = "returned" /\ \A k \in 1..Len(requests) : DailyOf(requests[k]) = <<>>)
           => dataframe = frame0

\* a repeated range has added its rows again
C10_Witness ==
    /\ pc = "returned"
    /\ frame0 # <<>>
    /\ dataframe = frame0 \o frame0

\* the last scrape of the reused scraper got no data: its retrieval failed
\* or its document held no data rows
GotNoData == s_last.soup.none \/ s_last.soup.rows = <<>>

\* C7: after any scrape call, get_dataframe is empty whenever that call's
\* retrieval failed or its page held no data rows, also when the call
\* follows an earlier successful scrape of the same scraper.
C7_EmptyAfterFailedScrape ==
    (s_pc = "scraped" /\ GotNoData) => GetDataframe = <<>>

\* a value text that is empty or not numeric once normalised
Unparsable(text) == ~IsNumeric(CleanCell(text))

\* the digits of a text, read as one natural number
DigitsOf(text) == DigitsToNat(SelectSeq(text, IsDigit))

\* digits, inner or outer spaces, and exactly one comma, with a digit
IsSpaceGrouped(text) ==
    /\ \A k \in 1..Len(text) : text[k] \in Digits \cup {" ", ","}
    /\ Len(SelectSeq(text, LAMBDA c : c = ",")) = 1
    /\ Len(SelectSeq(text, IsDigit)) >= 1

\* the number of digits after the decimal separator of a text, 0 without one
DecimalsOf(text) ==
    LET seps == {k \in 1..Len(text) : text[k] \in {",", "."}}
        first == IF seps = {} THEN Len(text) + 1
                 ELSE CHOOSE k \in seps : \A j \in seps : k <= j
    IN  Len(SelectSeq(SubSeq(text, first + 1, Len(text)), IsDigit))

\* the text reads as a negative number
IsNegative(text) == Strip(text) # <<>> /\ Head(Strip(text)) = "-"

\* a comma decimal separator together with dot grouping
IsDotGrouped(text) ==
    /\ \E k \in 1..Len(text) : text[k] = "."
    /\ \E k \in 1..Len(text) : text[k] = ","

DotGrouped == <<"1", ".", "2", "3", "4", ",", "5", "6">>
SpaceGrouped == <<"1", " ", "2", "3", "4", ",", "5", "6">>

\* C8 as stated: "1.234,56" and "1 234,56" both normalise to 1234.56.
C8_GroupedCellsParse ==
    (value # <<>> /\ cell \in {DotGrouped, SpaceGrouped}) =>
        value = <<Num(123456, 2)>>

\* C8 as amended: a cell with comma decimal separator and space grouping
\* normalises to its numeric value ("1 234,56" to 1234.56); with dot
\* grouping ("1.234,56") it normalises to missing.
C8_SpaceGroupedParse ==
    value # <<>> =>
        /\ cell = SpaceGrouped => value = <<Num(123456, 2)>>
        /\ IsSpaceGrouped(cell) =>
               value = <<Num(DigitsOf(cell), DecimalsOf(cell))>>
        /\ IsDotGrouped(cell) => value = <<NaN>>

C8_Witness ==
    /\ cell = SpaceGrouped
    /\ value = <<Num(123456, 2)>>

\* C9: a data row with 8 cells whose value cells are partly empty or not
\* numeric does not make the scrape fail: the row is kept at its place with
\* its date and category, its unparsable fields are missing (not zero), and
\* its other fields and the other rows keep their parsed values.
C9_CoercionKeepsRow ==
    LET rows == s_last.soup.rows
    IN  /\ (s_pc = "raised" =>
              \E k \in 1..Len(rows) : Len(rows[k]) # Len(columnas_datos) - 1)
        /\ (s_pc = "scraped" /\ rows # <<>>) =>
              /\ Len(GetDataframe) = Len(rows)
              /\ \A k \in 1..Len(rows) :
                     Len(rows[k]) = Len(columnas_datos) - 1 =>
                         /\ DateOfText(GetDataframe[k].Fecha) = s_date
                         /\ GetDataframe[k].Tipo = Strip(rows[k][1])
                         /\ Len(GetDataframe[k].vals) = 7
                         /\ \A j \in 1..7 :
                                LET v == GetDataframe[k].vals[j]
                                    text == rows[k][j + 1]
                                IN  IF Unparsable(text)
                                    THEN v.nan /\ v # Num(0, 0)
                                    ELSE ~v.nan /\ v = Num(
                                        (IF IsNegative(text) THEN -1 ELSE 1)
                                            * DigitsOf(text),
                                        DecimalsOf(text))

C9_Witness ==
    /\ s_pc = "scraped"
    /\ s_last.soup = Soup(PageMixed)
    /\ GetDataframe[2].vals[3].nan
    /\ GetDataframe[2].vals[1] = Num(123456, 2)
    /\ GetDataframe[1].vals[1] = Num(20, 0)

====
